---- MODULE Spec2Model ----
(***************************************************************************)
(* Model of src/client.py: MCPClient.process_query (one query turn: tool  *)
(* catalog fetch, round-1 completion, the tool-call batch loop, round-2   *)
(* completion) and MCPClient.chat_loop (the interactive loop around it).  *)
(*                                                                         *)
(* Texts are sequences of string atoms, so that "\n".join and the          *)
(* f-strings of the source are real concatenations.                        *)
(***************************************************************************)
EXTENDS Integers, Sequences, FiniteSets, TLC

\* ------------------------------------------------------------------ bounds
MaxCalls == 3

\* ------------------------------------------------------------ Python values
None == <<"<None>">>
NL == "\n"

\* `if x:` on a text-or-None value
Truthy(x) == x # None /\ x # <<>>

\* (mutant: the parts are concatenated without the separator)
RECURSIVE JoinNoSep(_)
JoinNoSep(parts) ==
    IF Len(parts) = 0 THEN <<>> ELSE Head(parts) \o JoinNoSep(Tail(parts))

\* "\n".join(parts)
RECURSIVE Join(_)
Join(parts) ==
    IF Len(parts) = 0 THEN <<>>
    ELSE IF Len(parts) = 1 THEN Head(parts)
    ELSE Head(parts) \o <<NL>> \o Join(Tail(parts))

\* ------------------------------------------------------- input line (l.167)
WS == " "
QuitLine == <<WS, "Q", "u", "i", "t", WS>>
Lines == { <<"h", "i">>, <<WS, "h", "i">>, <<"q", "u", "i", "t">>, QuitLine }

RECURSIVE LStrip(_)
LStrip(s) == IF Len(s) > 0 /\ Head(s) = WS THEN LStrip(Tail(s)) ELSE s

RECURSIVE RStrip(_)
RStrip(s) ==
    IF Len(s) > 0 /\ s[Len(s)] = WS THEN RStrip(SubSeq(s, 1, Len(s) - 1)) ELSE s

\* str.strip()
Strip(s) == RStrip(LStrip(s))

LowerChar(c) ==
    CASE c = "Q" -> "q" [] c = "U" -> "u" [] c = "I" -> "i" [] c = "T" -> "t"
      [] OTHER -> c

\* (mutant: the comparison with the quit token is case-sensitive)
Lower_same(s) == s

\* str.lower()
Lower(s) == [k \in 1..Len(s) |-> LowerChar(s[k])]

IsQuit(query) == Lower(query) = <<"q", "u", "i", "t">>

\* ------------------------------------------------- json.loads (l.107-110)
ParisBlob == "{\"city\": \"Paris\"}"
EmptyObjBlob == "{}"
NotJsonBlob == "not-json"
Blobs == { ParisBlob, EmptyObjBlob, NotJsonBlob }

\* a parsed JSON object is a sequence of <<key, value>> pairs
json_loads(blob) ==
    CASE blob = ParisBlob -> [ok |-> TRUE, value |-> << <<"city", "Paris">> >>, err |-> <<>>]
      [] blob = EmptyObjBlob -> [ok |-> TRUE, value |-> <<>>, err |-> <<>>]
      [] OTHER -> [ok |-> FALSE, value |-> <<>>,
                   err |-> <<"Expecting value: line 1 column 1 (char 0)">>]

RECURSIVE ReprItems(_)
ReprItems(d) ==
    IF Len(d) = 0 THEN <<>>
    ELSE <<"'", d[1][1], "': '", d[1][2], "'">>
         \o (IF Len(d) > 1 THEN <<", ">> ELSE <<>>) \o ReprItems(Tail(d))

\* repr() of a parsed dict, as the f-string of l.145 formats it
PyRepr(d) == <<"{">> \o ReprItems(d) \o <<"}">>

\* ------------------------------------------------ result texts (l.109, 136, 145)
ParseErrorText(func_name, e) ==
    <<"[Error parsing arguments for ", func_name, ": ">> \o e \o <<"]">>

\* (mutant: the message of the exception is dropped)
ToolErrorText_nomsg(e) == <<"[Tool execution error]">>

ToolErrorText(e) == <<"[Tool execution error: ">> \o e \o <<"]">>

TraceLine(func_name, func_args) ==
    <<"[Called tool '", func_name, "' with args ">> \o PyRepr(func_args) \o <<"]">>

\* --------------------------------------- Tool Host responses (l.113-136)
\* kind: "raise"     call_tool raised Exception(msg)
\*       "str"       tool_result.content is a str (text)
\*       "list"      tool_result.content is a list of items
\*       "other"     tool_result.content has another shape, str(content) = text
\*       "nocontent" tool_result has no content attribute, str(tool_result) = text
TextItem(t) == [hasText |-> TRUE, text |-> t, repr |-> <<"TextContent(...)">>]
OpaqueItem == [hasText |-> FALSE, text |-> None, repr |-> <<"ImageContent(...)">>]

Resp(kind, text, items, msg) ==
    [kind |-> kind, text |-> text, items |-> items, msg |-> msg]

\* no call_tool was made (the arguments did not parse)
NoResp == Resp("parse_error", <<>>, <<>>, <<>>)

\* what the tools of the Tool Host answer: get_weather raises, or answers with
\* text or with a list of items; get_time answers with a content of another
\* shape or without content
WeatherResponses ==
    { Resp("raise", <<>>, <<>>, <<"boom">>),
      Resp("str", <<"Sunny, 18C">>, <<>>, <<>>),
      Resp("list", <<>>, <<TextItem(<<"Sunny">>), OpaqueItem>>, <<>>),
      Resp("list", <<>>, <<TextItem(None)>>, <<>>) }

TimeResponses ==
    { Resp("other", <<"42">>, <<>>, <<>>),
      Resp("nocontent", <<"meta=None">>, <<>>, <<>>) }

ToolResponses == WeatherResponses \cup TimeResponses

ResponsesOf(func_name) ==
    IF func_name = "get_weather" THEN WeatherResponses ELSE TimeResponses

\* (mutant: the text attribute is ignored)
ItemTexts_reprOnly(items) == [k \in 1..Len(items) |-> items[k].repr]

\* l.123-127: one entry of texts per item
ItemTexts(items) ==
    [k \in 1..Len(items) |->
        IF items[k].hasText THEN items[k].text ELSE items[k].repr]

\* "\n".join(texts) raises TypeError on the first entry that is not a str
BadItems(texts) == {k \in 1..Len(texts) : texts[k] = None}

FirstBad(texts) == CHOOSE k \in BadItems(texts) : \A j \in BadItems(texts) : k <= j

JoinErr(texts) ==
    <<"sequence item ", ToString(FirstBad(texts) - 1),
      ": expected str instance, NoneType found">>

\* l.112-136: the text the batch loop records for one call_tool outcome
ResultContent(resp) ==
    CASE resp.kind = "raise" -> ToolErrorText(resp.msg)
      [] resp.kind = "str" -> resp.text
      [] resp.kind = "list" ->
            LET texts == ItemTexts(resp.items)
            IN  IF BadItems(texts) # {} THEN ToolErrorText(JoinErr(texts))
                ELSE Join(texts)
      [] OTHER -> resp.text

\* ------------------------------------------------------ messages (history)
UserMsg(query) == [role |-> "user", content |-> query]

\* l.90-100
ToolCallEntry(tc) ==
    [id |-> tc.id, type |-> "function",
     function |-> [name |-> tc.name, arguments |-> tc.arguments]]

\* (mutant: the assistant message is recorded without its tool calls)
AssistantMsg_noCalls(message) ==
    [role |-> "assistant", content |-> message.content, tool_calls |-> <<>>]

\* l.87-101
AssistantMsg(message) ==
    [role |-> "assistant", content |-> message.content,
     tool_calls |-> [k \in 1..Len(message.tool_calls) |->
                        ToolCallEntry(message.tool_calls[k])]]

\* (mutant: the tool-role message is keyed by the tool name)
ToolMsg_byname(tool_call, result_content) ==
    [role |-> "tool", tool_call_id |-> tool_call.name, content |-> result_content]

\* l.139-143
ToolMsg(tool_call, result_content) ==
    [role |-> "tool", tool_call_id |-> tool_call.id, content |-> result_content]

\* (mutant: the message is put in front of the history)
AppendMsg_front(history, m) == <<m>> \o history

\* l.87, l.139: messages.append
AppendMsg(history, m) == Append(history, m)

\* ------------------------------------------------- Model Backend (replies)
Contents == { None, <<>>, <<"Let me check.">> }
FinalContents == { None, <<"It is sunny.">> }
CallIds == <<"call_a", "call_b", "call_c", "call_d", "call_e">>

\* what the model can ask for in one tool call: a tool name and an argument blob
CallShapes ==
    { [name |-> "get_weather", arguments |-> ParisBlob],
      [name |-> "get_time", arguments |-> EmptyObjBlob],
      [name |-> "get_weather", arguments |-> NotJsonBlob] }

\* the batches of n calls; the backend mints ids unique within the response
ToolCallSeqs(n) ==
    { [k \in 1..n |-> [id |-> CallIds[k], name |-> sh[k].name,
                       arguments |-> sh[k].arguments]] :
        sh \in [1..n -> CallShapes] }

\* round-1 replies: a direct answer (content None, empty or text, no tool calls)
\* or a batch of 1..MaxCalls tool calls, with or without content text
Replies ==
    { [content |-> c, tool_calls |-> <<>>] : c \in Contents }
    \cup { [content |-> c, tool_calls |-> tcs] :
             c \in Contents \ {<<>>},
             tcs \in UNION { ToolCallSeqs(n) : n \in 1..MaxCalls } }

ConnectionError == <<"Connection error.">>
PairingError == <<"400 an assistant message with tool_calls must be followed by ",
                  "tool messages responding to each tool_call_id">>

\* index of the message that a tool-role message at position k answers: the
\* nearest preceding message that is not a tool-role message (0 if none)
RECURSIVE OwnerOf(_, _)
OwnerOf(history, k) ==
    IF k = 0 THEN 0
    ELSE IF history[k].role # "tool" THEN k
    ELSE OwnerOf(history, k - 1)

\* the tool-call / tool-result pairing the backend enforces on a history
PairingOK(history) ==
    /\ \A k \in 1..Len(history) :
          history[k].role = "tool" =>
             LET o == OwnerOf(history, k)
             IN  /\ o > 0
                 /\ history[o].role = "assistant"
                 /\ \E c \in 1..Len(history[o].tool_calls) :
                       history[o].tool_calls[c].id = history[k].tool_call_id
    /\ \A o \in 1..Len(history) :
          history[o].role = "assistant" =>
             \A c \in 1..Len(history[o].tool_calls) :
                \E k \in (o + 1)..Len(history) :
                   /\ history[k].role = "tool"
                   /\ OwnerOf(history, k) = o
                   /\ history[k].tool_call_id = history[o].tool_calls[c].id

\* ----------------------------------------------- Tool Host catalog (l.55-66)
Tool(name) == [name |-> name, description |-> "Get weather", inputSchema |-> "schema"]
Catalogs == { <<Tool("get_weather")>>, <<Tool("get_time"), Tool("get_weather")>> }

\* l.56-66
ToModelSpec(tool) ==
    [type |-> "function",
     function |-> [name |-> tool.name, description |-> tool.description,
                   parameters |-> tool.inputSchema]]

\* (mutant: the specs are built in reverse catalog order)
AvailableTools_reversed(tools) ==
    [k \in 1..Len(tools) |-> ToModelSpec(tools[Len(tools) + 1 - k])]

\* l.56-66
AvailableTools(tools) == [k \in 1..Len(tools) |-> ToModelSpec(tools[k])]

\* ====================================================================== state
VARIABLES
    pc,                \* position of the client: "read", "list_tools", "round1",
                       \* "dispatch", "calling", "round2", "turn_end", "exited"
    query,             \* l.167: the stripped input line of the current turn
    messages,          \* l.50: the history of the current turn
    available_tools,   \* l.56: tool specs of the current turn
    message,           \* l.77: the round-1 reply
    final_text_parts,  \* l.78: the output buffer
    i,                 \* l.104: position of the batch loop in message.tool_calls
    func_args,         \* l.107: parsed arguments of the current call
    final_message,     \* l.154: the round-2 reply
    result,            \* how process_query ended: returned text or raised error
    printed,           \* l.46/171/175: what was printed since the last read; cleared
                       \* when a line is read and when the loop is left
    sent,              \* observed: completion requests issued in this turn
    invoked,           \* observed: call_tool invocations issued in this turn
    resolved,          \* observed: outcome of each batch call handled so far
    hadError,          \* observed: process_query raised in some earlier turn
    server_script_path,\* l.26: argument of connect_to_server (while it runs)
    spawned,           \* l.38: the Tool Host subprocess and its stdio transport
                       \* are held by the exit stack
    sessionOpen,       \* l.40: the ClientSession is held by the exit stack
    cleaned,           \* l.192: cleanup() has been called
    catalog,           \* the tool catalog the Tool Host currently serves
    event,             \* observed: what last ended a read, a turn, the loop or
                       \* the setup ("none", "quit", an exception type)
    cancelPending,     \* the runtime has requested the cancellation of the main
                       \* task; it takes effect at the next await
    fetched            \* observed: catalogs fetched by list_tools in this turn

vars == <<pc, query, messages, available_tools, message, final_text_parts,
          i, func_args, final_message, result, printed, sent, invoked, resolved,
          hadError, server_script_path, spawned, sessionOpen, cleaned, catalog,
          event, cancelPending, fetched>>

hostVars == <<server_script_path, spawned, sessionOpen, cleaned, catalog>>
loopObs == <<event, cancelPending>>

NoMessage == [content |-> None, tool_calls |-> <<>>]
NoResult == [kind |-> "none", text |-> <<>>]
Returned(text) == [kind |-> "return", text |-> text]
Raised(e) == [kind |-> "raise", text |-> e]
Nothing == [kind |-> "nothing", text |-> <<>>]

turnLocals == <<query, messages, available_tools, message, final_text_parts,
                i, func_args, final_message, result, sent, invoked, resolved,
                fetched>>

NoPath == <<>>
InitialCatalog == <<Tool("get_weather")>>

Init ==
    /\ pc = "start"
    /\ server_script_path = NoPath
    /\ spawned = FALSE
    /\ sessionOpen = FALSE
    /\ cleaned = FALSE
    /\ catalog = InitialCatalog
    /\ event = "none"
    /\ cancelPending = FALSE
    /\ fetched = <<>>
    /\ query = <<>>
    /\ messages = <<>>
    /\ available_tools = <<>>
    /\ message = NoMessage
    /\ final_text_parts = <<>>
    /\ i = 0
    /\ func_args = <<>>
    /\ final_message = NoMessage
    /\ result = NoResult
    /\ printed = Nothing
    /\ sent = <<>>
    /\ invoked = <<>>
    /\ resolved = <<>>
    /\ hadError = FALSE

\* ==================================================================== main
\* script paths, as sequences of characters
PyPath == <<"w", ".", "p", "y">>
JsPath == <<"s", ".", "j", "s">>
TxtPath == <<"s", ".", "t", "x", "t">>
BarePath == <<"p", "y">>
ScriptPaths == { PyPath, JsPath, TxtPath, BarePath }

\* sys.argv[1:]
Argvs == { <<>> } \cup { <<path>> : path \in ScriptPaths }

\* str.endswith
EndsWith(str, suffix) ==
    /\ Len(str) >= Len(suffix)
    /\ SubSeq(str, Len(str) - Len(suffix) + 1, Len(str)) = suffix

\* (mutant: the dot of the extension is not required)
Supported_nodot(path) ==
    EndsWith(path, <<"p", "y">>) \/ EndsWith(path, <<"j", "s">>)

\* l.28: the extension test of connect_to_server
Supported(path) ==
    EndsWith(path, <<".", "p", "y">>) \/ EndsWith(path, <<".", "j", "s">>)

\* (mutant: cleanup sits after the try block instead of in `finally`)
RunsCleanup_noFinally(ev) == ev \in {"quit", "KeyboardInterrupt"}

\* l.188-192: `finally` runs cleanup however the try block was left
RunsCleanup(ev) == TRUE

\* l.183-187: the argument check; the client is constructed (l.187) only when a
\* script path is given
MainStart(argv) ==
    /\ pc = "start"
    /\ IF Len(argv) < 1
       THEN /\ pc' = "usage_exit"
            /\ event' = "SystemExit"
            /\ UNCHANGED server_script_path
       ELSE /\ pc' = "connect"
            /\ server_script_path' = argv[1]
            /\ UNCHANGED event
    /\ UNCHANGED <<turnLocals, printed, hadError, spawned, sessionOpen, cleaned,
                   catalog, cancelPending>>

\* l.28-29: connect_to_server refuses a script that is neither .py nor .js
ConnectCheck ==
    /\ pc = "connect"
    /\ IF Supported(server_script_path)
       THEN /\ pc' = "spawn"
            /\ UNCHANGED <<event, server_script_path>>
       ELSE /\ pc' = "setup_failed"
            /\ event' = "ValueError"
            /\ server_script_path' = NoPath
    /\ UNCHANGED <<turnLocals, printed, hadError, spawned, sessionOpen, cleaned,
                   catalog, cancelPending>>

\* l.31-39: the Tool Host is launched over stdio; a failed launch acquires nothing
SpawnHost(ok) ==
    /\ pc = "spawn"
    /\ IF ok
       THEN /\ spawned' = TRUE
            /\ pc' = "session"
            /\ UNCHANGED <<event, server_script_path>>
       ELSE /\ pc' = "setup_failed"
            /\ event' = "LaunchError"
            /\ server_script_path' = NoPath
            /\ UNCHANGED spawned
    /\ UNCHANGED <<turnLocals, printed, hadError, sessionOpen, cleaned, catalog,
                   cancelPending>>

\* l.40-42: the session is entered and the handshake is made
OpenSession(ok) ==
    /\ pc = "session"
    /\ sessionOpen' = TRUE
    /\ IF ok
       THEN /\ pc' = "conn_list"
            /\ UNCHANGED <<event, server_script_path>>
       ELSE /\ pc' = "setup_failed"
            /\ event' = "HandshakeError"
            /\ server_script_path' = NoPath
    /\ UNCHANGED <<turnLocals, printed, hadError, spawned, cleaned, catalog,
                   cancelPending>>

\* l.44-46: the catalog is listed and printed; connect_to_server returns and
\* chat_loop starts reading (l.190, l.162-167)
ConnListTools(ok) ==
    /\ pc = "conn_list"
    /\ IF ok
       THEN /\ pc' = "read"
            /\ printed' = [kind |-> "Connected",
                           text |-> [k \in 1..Len(catalog) |-> catalog[k].name]]
            /\ UNCHANGED event
       ELSE /\ pc' = "setup_failed"
            /\ event' = "HandshakeError"
            /\ UNCHANGED printed
    /\ server_script_path' = NoPath
    /\ UNCHANGED <<turnLocals, hadError, spawned, sessionOpen, cleaned, catalog,
                   cancelPending>>

\* an interrupt while connect_to_server awaits (l.38-44)
SetupInterrupted ==
    /\ pc \in {"spawn", "session", "conn_list"}
    /\ pc' = "setup_failed"
    /\ event' = "CancelledError"
    /\ sessionOpen' \in (IF pc = "session" THEN BOOLEAN ELSE {sessionOpen})
    /\ server_script_path' = NoPath
    /\ UNCHANGED <<turnLocals, printed, hadError, spawned, cleaned, catalog,
                   cancelPending>>

\* l.191-192, l.177-179: the try block of main is left; cleanup closes the exit
\* stack, which releases the session and the subprocess
MainFinally ==
    /\ pc \in {"exited", "setup_failed"}
    /\ pc' = "done"
    /\ cleaned' = RunsCleanup(event)
    /\ IF RunsCleanup(event)
       THEN spawned' = FALSE /\ sessionOpen' = FALSE
       ELSE UNCHANGED <<spawned, sessionOpen>>
    /\ UNCHANGED <<turnLocals, printed, hadError, server_script_path, catalog,
                   event, cancelPending>>

\* the Tool Host changes the catalog it serves, between two turns
CatalogChanges ==
    /\ pc = "read"
    /\ \E c \in Catalogs : c # catalog /\ catalog' = c
    /\ UNCHANGED <<pc, turnLocals, printed, hadError, server_script_path, spawned,
                   sessionOpen, cleaned, event, cancelPending>>

\* =============================================================== chat_loop
\* (mutant: any exception leaves the loop)
AfterException_exit(excType) ==
    IF excType = "KeyboardInterrupt" THEN "exited" ELSE "exited"

\* (mutant: an exception raised by input() leaves the loop)
AfterException_eof(excType) ==
    IF excType \in {"KeyboardInterrupt", "CancelledError", "EOFError"}
    THEN "exited" ELSE "read"

\* l.172-175: where the loop goes after an exception: KeyboardInterrupt breaks,
\* an Exception is reported and the loop reads again, any other BaseException
\* (CancelledError) propagates out of chat_loop
AfterException(excType) ==
    IF excType \in {"KeyboardInterrupt", "CancelledError"} THEN "exited" ELSE "read"

\* l.171: print("\nResponse:\n" + response)
ResponseLine(response) ==
    [kind |-> "Response", text |-> <<"\nResponse:\n">> \o response]

\* l.175: print(f"\nError: {e}")
ErrorLine(e) == [kind |-> "Error", text |-> <<"\nError: ">> \o e]

\* l.167-170: a line is read; quit breaks, anything else starts process_query
\* (l.50-52: the history starts as the single user message)
ReadLine(ln) ==
    /\ pc = "read"
    /\ LET q == Strip(ln)
       IN  IF IsQuit(q)
           THEN /\ pc' = "exited"
                /\ query' = q
                /\ event' = "quit"
                /\ printed' = Nothing
                /\ UNCHANGED <<messages, available_tools, message,
                               final_text_parts, i, func_args, final_message,
                               result, sent, invoked, resolved, hadError>>
           ELSE /\ pc' = "list_tools"
                /\ query' = q
                /\ event' = "none"
                /\ messages' = <<UserMsg(q)>>
                /\ printed' = Nothing
                /\ UNCHANGED <<available_tools, message, final_text_parts, i,
                               func_args, final_message, result, sent, invoked,
                               resolved, hadError>>
    /\ UNCHANGED <<hostVars, cancelPending, fetched>>

\* l.167, 172-173: an interrupt while reading raises KeyboardInterrupt in input()
ReadInterrupt ==
    /\ pc = "read"
    /\ pc' = AfterException("KeyboardInterrupt")
    /\ event' = "KeyboardInterrupt"
    /\ printed' = Nothing
    /\ UNCHANGED <<turnLocals, hadError, hostVars, cancelPending>>

\* l.167, l.196: an interrupt while reading, under a runtime whose asyncio.run
\* answers the first interrupt by cancelling the main task: input() goes on
\* reading and the cancellation waits for the next await
ReadInterruptDeferred ==
    /\ pc = "read"
    /\ ~cancelPending
    /\ cancelPending' = TRUE
    /\ UNCHANGED <<pc, turnLocals, printed, hadError, hostVars, event>>

EOFMsg == <<"EOF when reading a line">>

\* l.167, 174-175: input() raises an Exception (end of input)
ReadFails ==
    /\ pc = "read"
    /\ pc' = AfterException("EOFError")
    /\ printed' = ErrorLine(EOFMsg)
    /\ event' = "EOFError"
    /\ UNCHANGED <<turnLocals, hadError, hostVars, cancelPending>>

\* l.170-171, 174-175: process_query has returned or raised; its locals are gone
TurnEnd ==
    /\ pc = "turn_end"
    /\ IF result.kind = "return"
       THEN /\ printed' = ResponseLine(result.text)
            /\ pc' = "read"
            /\ event' = "none"
            /\ UNCHANGED hadError
       ELSE /\ printed' = ErrorLine(result.text)
            /\ pc' = AfterException("Exception")
            /\ event' = "Exception"
            /\ hadError' = TRUE
    /\ messages' = <<>>
    /\ available_tools' = <<>>
    /\ message' = NoMessage
    /\ final_text_parts' = <<>>
    /\ i' = 0
    /\ func_args' = <<>>
    /\ final_message' = NoMessage
    /\ result' = NoResult
    /\ sent' = <<>>
    /\ invoked' = <<>>
    /\ resolved' = <<>>
    /\ fetched' = <<>>
    /\ UNCHANGED <<query, hostVars, cancelPending>>

\* ============================================================ process_query
ListToolsError == <<"Connection closed">>

\* l.55-66: the catalog is fetched and translated
ListTools ==
    /\ pc = "list_tools"
    /\ ~cancelPending
    /\ fetched' = Append(fetched, catalog)
    /\ available_tools' = AvailableTools(catalog)
    /\ pc' = "round1"
    /\ UNCHANGED <<final_message, query, messages, message, final_text_parts, i, func_args,
                   result, printed, sent, invoked, resolved, hadError>>
    /\ UNCHANGED <<hostVars, loopObs>>

\* l.55: the Tool Host fails to answer list_tools
ListToolsFails ==
    /\ pc = "list_tools"
    /\ ~cancelPending
    /\ UNCHANGED <<hostVars, loopObs, fetched>>
    /\ result' = Raised(ListToolsError)
    /\ pc' = "turn_end"
    /\ UNCHANGED <<final_message, query, messages, available_tools, message,
                   final_text_parts, i, func_args, printed, sent, invoked,
                   resolved, hadError>>

\* a request argument that is not passed
NotGiven == [given |-> FALSE, specs |-> <<>>]

\* l.72: tools=available_tools
Given(specs) == [given |-> TRUE, specs |-> specs]

Request(round, history, tools, tool_choice) ==
    [round |-> round, messages |-> history, tools |-> tools,
     tool_choice |-> tool_choice]

\* l.85: `if message.tool_calls:`
HasToolCalls(msg) == Len(msg.tool_calls) > 0

\* (mutant: the content is appended without the `if message.content:` test)
Round1Parts_uncond(msg) == <<msg.content>>

\* l.81-82: the buffer after the round-1 content
Round1Parts(msg) == IF Truthy(msg.content) THEN <<msg.content>> ELSE <<>>

\* where the batch loop goes after the call at position k (l.104, l.148)
AfterCall(msg, k) == IF k < Len(msg.tool_calls) THEN "dispatch" ELSE "round2"

\* l.69-101, 158: round 1 is requested and answered
Round1(reply) ==
    /\ UNCHANGED <<hostVars, loopObs, fetched>>
    /\ pc = "round1"
    /\ sent' = Append(sent, Request(1, messages, Given(available_tools), "auto"))
    /\ message' = reply
    /\ final_text_parts' = Round1Parts(reply)
    /\ IF HasToolCalls(reply)
       THEN /\ messages' = AppendMsg(messages, AssistantMsg(reply))
            /\ i' = 1
            /\ pc' = "dispatch"
            /\ UNCHANGED result
       ELSE /\ result' = Returned(Join(Round1Parts(reply)))
            /\ pc' = "turn_end"
            /\ UNCHANGED <<messages, i>>
    /\ UNCHANGED <<final_message, query, available_tools, func_args, printed, invoked,
                   resolved, hadError>>

\* l.69-75: the Model Backend fails in round 1; nothing in process_query catches it
Round1Fails ==
    /\ UNCHANGED <<hostVars, loopObs, fetched>>
    /\ pc = "round1"
    /\ sent' = Append(sent, Request(1, messages, Given(available_tools), "auto"))
    /\ result' = Raised(ConnectionError)
    /\ pc' = "turn_end"
    /\ UNCHANGED <<final_message, query, messages, available_tools, message,
                   final_text_parts, i, func_args, printed, invoked, resolved,
                   hadError>>

\* (mutant: the batch is walked from its end)
CallAt_reversed(msg, k) == msg.tool_calls[Len(msg.tool_calls) + 1 - k]

\* l.104: the call the loop handles at position k
CallAt(msg, k) == msg.tool_calls[k]

\* (mutant: the parse failure is not honoured, call_tool is issued anyway)
Invokes_always(parsed) == parsed.ok \/ ~parsed.ok

\* l.106-110: does the loop go on to call_tool after json.loads ?
Invokes(parsed) == parsed.ok

\* l.104-113: loop head; the arguments are parsed; on a parse failure the error
\* text goes to the buffer and the loop continues with the next call, otherwise
\* call_tool is issued
Dispatch ==
    /\ UNCHANGED <<hostVars, loopObs, fetched>>
    /\ pc = "dispatch"
    /\ LET tool_call == CallAt(message, i)
           parsed == json_loads(tool_call.arguments)
       IN  IF Invokes(parsed)
           THEN /\ func_args' = parsed.value
                /\ invoked' = Append(invoked,
                      [idx |-> i, name |-> tool_call.name, args |-> parsed.value])
                /\ pc' = "calling"
                /\ UNCHANGED <<final_text_parts, i, resolved>>
           ELSE /\ final_text_parts' = Append(final_text_parts,
                      ParseErrorText(tool_call.name, parsed.err))
                /\ resolved' = Append(resolved,
                      [idx |-> i, resp |-> NoResp,
                       text |-> ParseErrorText(tool_call.name, parsed.err)])
                /\ i' = i + 1
                /\ pc' = AfterCall(message, i)
                /\ UNCHANGED <<func_args, invoked>>
    /\ UNCHANGED <<final_message, query, messages, available_tools, message, result,
                   printed, sent, hadError>>

\* l.113-146: call_tool resolves (response or exception); the result text is
\* recorded in the history and in the buffer
CallToolDone(resp) ==
    /\ UNCHANGED <<hostVars, loopObs, fetched>>
    /\ pc = "calling"
    /\ resp \in ResponsesOf(CallAt(message, i).name)
    /\ LET tool_call == CallAt(message, i)
           result_content == ResultContent(resp)
       IN  /\ messages' = AppendMsg(messages, ToolMsg(tool_call, result_content))
           /\ final_text_parts' = final_text_parts
                  \o <<TraceLine(tool_call.name, func_args), result_content>>
           /\ resolved' = Append(resolved,
                  [idx |-> i, resp |-> resp, text |-> result_content])
    /\ i' = i + 1
    /\ pc' = AfterCall(message, i)
    /\ UNCHANGED <<final_message, query, available_tools, message, func_args, result,
                   printed, sent, invoked, hadError>>

\* (mutant: round 2 advertises the tools again)
Round2Tools_again(tools) == Given(tools)

\* l.149-153: the tools argument of the round-2 request
Round2Tools(tools) == NotGiven

\* round-2 replies: content or not; the model may ask for a tool again although
\* none was offered
FinalReplies ==
    { [content |-> c, tool_calls |-> <<>>] : c \in FinalContents }
    \cup { [content |-> None, tool_calls |-> tcs] : tcs \in ToolCallSeqs(1) }

\* l.155-156: the buffer after the round-2 content
Round2Parts(parts, content) ==
    IF Truthy(content) THEN Append(parts, content) ELSE parts

\* l.149-158: round 2 is requested and answered
Round2(reply) ==
    /\ pc = "round2"
    /\ PairingOK(messages)
    /\ sent' = Append(sent, Request(2, messages, Round2Tools(available_tools),
                                    "omitted"))
    /\ final_message' = reply
    /\ final_text_parts' = Round2Parts(final_text_parts, reply.content)
    /\ result' = Returned(Join(Round2Parts(final_text_parts, reply.content)))
    /\ pc' = "turn_end"
    /\ UNCHANGED <<hostVars, loopObs, fetched>>
    /\ UNCHANGED <<query, messages, available_tools, message, i, func_args,
                   printed, invoked, resolved, hadError>>

\* l.149-153: the Model Backend fails in round 2 (it rejects a history that
\* violates the pairing, or it is unreachable); process_query does not catch it
Round2Fails ==
    /\ UNCHANGED <<hostVars, loopObs, fetched>>
    /\ pc = "round2"
    /\ sent' = Append(sent, Request(2, messages, Round2Tools(available_tools),
                                    "omitted"))
    /\ \E e \in {ConnectionError, PairingError} :
          /\ (e = PairingError) <=> ~PairingOK(messages)
          /\ result' = Raised(e)
    /\ pc' = "turn_end"
    /\ UNCHANGED <<final_message, query, messages, available_tools, message,
                   final_text_parts, i, func_args, printed, invoked, resolved,
                   hadError>>

\* an interrupt while process_query awaits the Tool Host or the Model Backend
\* (l.55, 69, 113, 149): KeyboardInterrupt or CancelledError is raised at the
\* await; neither is an Exception, so l.135 does not catch it; chat_loop breaks
\* on the first (l.172) and lets the second propagate
TurnInterrupted(exc) ==
    /\ pc \in {"list_tools", "round1", "calling", "round2"}
    /\ cancelPending => exc = "CancelledError"
    /\ pc' = AfterException(exc)
    /\ event' = exc
    /\ messages' = <<>>
    /\ available_tools' = <<>>
    /\ message' = NoMessage
    /\ final_text_parts' = <<>>
    /\ i' = 0
    /\ func_args' = <<>>
    /\ final_message' = NoMessage
    /\ result' = NoResult
    /\ sent' = <<>>
    /\ invoked' = <<>>
    /\ resolved' = <<>>
    /\ fetched' = <<>>
    /\ UNCHANGED <<query, printed, hadError, hostVars, cancelPending>>

Next ==
    \/ \E ln \in Lines : ReadLine(ln)
    \/ ReadInterrupt
    \/ ReadFails
    \/ TurnEnd
    \/ ListTools
    \/ ListToolsFails
    \/ \E reply \in Replies : Round1(reply)
    \/ Round1Fails
    \/ Dispatch
    \/ \E resp \in ToolResponses : CallToolDone(resp)
    \/ \E reply \in FinalReplies : Round2(reply)
    \/ Round2Fails
    \/ \E exc \in {"KeyboardInterrupt", "CancelledError"} : TurnInterrupted(exc)
    \/ \E argv \in Argvs : MainStart(argv)
    \/ ConnectCheck
    \/ \E ok \in BOOLEAN : SpawnHost(ok)
    \/ \E ok \in BOOLEAN : OpenSession(ok)
    \/ \E ok \in BOOLEAN : ConnListTools(ok)
    \/ SetupInterrupted
    \/ MainFinally
    \/ CatalogChanges
    \/ ReadInterruptDeferred

Spec == Init /\ [][Next]_vars

\* ===================================================================== claims
\* helpers of the properties below
IsToolMsg(m) == m.role = "tool"
ToolMsgsOf(history) == SelectSeq(history, IsToolMsg)
Batch == message.tool_calls
BatchLen == Len(message.tool_calls)
Malformed(k) == ~json_loads(Batch[k].arguments).ok
BatchHandled == pc \in {"round2", "turn_end"} /\ BatchLen > 0
Round2Requested == \E r \in 1..Len(sent) : sent[r].round = 2

\* C1: when the batch loop has handled a batch, the history holds exactly one
\* tool-role message per ToolCallRequest, the k-th carrying the id of the k-th
\* request, whatever the outcome of the call.
C1_OneToolMsgPerRequest ==
    BatchHandled =>
        /\ Len(ToolMsgsOf(messages)) = BatchLen
        /\ \A k \in 1..BatchLen :
              k <= Len(ToolMsgsOf(messages)) =>
                 ToolMsgsOf(messages)[k].tool_call_id = Batch[k].id

C3_MalformedNeverInvoked ==
    /\ \A e \in 1..Len(invoked) : ~Malformed(invoked[e].idx)
    /\ \A k \in 1..BatchLen :
          (~Malformed(k) /\ (k < i \/ (k = i /\ pc = "calling"))) =>
             \E e \in 1..Len(invoked) :
                /\ invoked[e].idx = k
                /\ invoked[e].name = Batch[k].name
                /\ invoked[e].args = json_loads(Batch[k].arguments).value
    /\ BatchHandled => i = BatchLen + 1

\* C3 witness: a batch of three calls with the malformed one in the middle has
\* been handled; the first and the last call were invoked.
C3_Witness ==
    /\ pc = "round2"
    /\ BatchLen = 3
    /\ ~Malformed(1) /\ Malformed(2) /\ ~Malformed(3)
    /\ Len(invoked) = 2 /\ invoked[1].idx = 1 /\ invoked[2].idx = 3

\* C3 witness variants: malformed call first, malformed call last
C3_WitnessFirst ==
    pc = "round2" /\ BatchLen = 3 /\ Malformed(1) /\ Len(invoked) = 2

C3_WitnessLast ==
    pc = "round2" /\ BatchLen = 3 /\ Malformed(3) /\ Len(invoked) = 2

\* did this resolved call end in a Tool Host failure (call_tool raised, or the
\* response could not be normalized) ?
NormalizeFails(resp) ==
    resp.kind = "list" /\ \E k \in 1..Len(resp.items) :
                              resp.items[k].hasText /\ resp.items[k].text = None
ToolFailed(r) == r.resp.kind = "raise" \/ NormalizeFails(r.resp)
HasToolMsg(id, text) ==
    \E m \in 1..Len(messages) :
       /\ messages[m].role = "tool"
       /\ messages[m].tool_call_id = id
       /\ messages[m].content = text

\* C4: a failure of the Tool Host in call_tool, or in normalizing its response,
\* stays inside the batch loop: the call's result text is
\* `[Tool execution error: <message>]` and is recorded as the call's tool-role
\* message, the remaining calls of the batch are handled, round 2 is requested,
\* and if process_query raises at all it is with a Model Backend error of round 2.
C4_ToolFailureContained ==
    /\ \A r \in 1..Len(resolved) :
          LET e == resolved[r]
          IN  /\ e.resp.kind = "raise" =>
                    e.text = <<"[Tool execution error: ">> \o e.resp.msg \o <<"]">>
              /\ NormalizeFails(e.resp) =>
                    /\ Len(e.text) >= 3
                    /\ e.text[1] = "[Tool execution error: "
                    /\ e.text[Len(e.text)] = "]"
              /\ ToolFailed(e) => HasToolMsg(Batch[e.idx].id, e.text)
    /\ (pc = "turn_end" /\ \E r \in 1..Len(resolved) : ToolFailed(resolved[r])) =>
          /\ Len(resolved) = BatchLen
          /\ Round2Requested
          /\ result.kind \in {"return", "raise"}
          /\ result.kind = "raise" => result.text \in {ConnectionError, PairingError}

\* C4 witness: the first call of a three-call batch raised in call_tool, the
\* other two were still invoked, and the turn returned an answer.
C4_Witness ==
    /\ pc = "turn_end"
    /\ result.kind = "return"
    /\ BatchLen = 3 /\ Len(resolved) = 3
    /\ resolved[1].resp.kind = "raise"
    /\ resolved[2].resp.kind = "str"
    /\ NormalizeFails(resolved[3].resp)

\* C5: a turn whose round-1 reply carries no tool calls returns exactly the
\* reply's content text (the empty text when there is no content), issues the
\* round-1 request only, and never invokes call_tool.
C5_DirectAnswer ==
    /\ (pc = "turn_end" /\ result.kind = "return" /\ BatchLen = 0) =>
          /\ result.text = (IF message.content = None THEN <<>> ELSE message.content)
          /\ Len(sent) = 1 /\ sent[1].round = 1
          /\ invoked = <<>>
          /\ Len(messages) = 1
    /\ (Round2Requested \/ invoked # <<>> \/ pc \in {"dispatch", "calling", "round2"})
          => BatchLen > 0

\* C5 witness: a direct answer with content text has been returned.
C5_Witness ==
    /\ pc = "turn_end" /\ result.kind = "return" /\ BatchLen = 0
    /\ message.content = <<"Let me check.">>
    /\ result.text = <<"Let me check.">>

\* C5 witness: a reply without content and without tool calls gives the empty answer
C5_WitnessEmpty ==
    /\ pc = "turn_end" /\ result.kind = "return" /\ BatchLen = 0
    /\ message.content = None
    /\ result.text = <<>>

AssistantsBefore(h, k) == {o \in 1..(k - 1) : h[o].role = "assistant"}
LastAssistantBefore(h, k) ==
    CHOOSE o \in AssistantsBefore(h, k) : \A o2 \in AssistantsBefore(h, k) : o2 <= o

\* C6: in every history passed to the Model Backend, each tool-role message
\* carries the id of one of the tool_calls of the last assistant message before
\* it, and that assistant message records id, name and argument text of every
\* call of the round-1 reply unchanged.
C6_HistoryPairing ==
    \A r \in 1..Len(sent) :
       LET h == sent[r].messages
       IN  /\ \A k \in 1..Len(h) :
                 h[k].role = "tool" =>
                    /\ AssistantsBefore(h, k) # {}
                    /\ \E c \in 1..Len(h[LastAssistantBefore(h, k)].tool_calls) :
                          h[LastAssistantBefore(h, k)].tool_calls[c].id
                             = h[k].tool_call_id
           /\ \A o \in 1..Len(h) :
                 h[o].role = "assistant" =>
                    /\ Len(h[o].tool_calls) = BatchLen
                    /\ \A c \in 1..BatchLen :
                          /\ h[o].tool_calls[c].id = Batch[c].id
                          /\ h[o].tool_calls[c].function.name = Batch[c].name
                          /\ h[o].tool_calls[c].function.arguments
                                = Batch[c].arguments

\* C6 witness: a round-2 request went out with a history of three tool-role
\* messages.
C6_Witness ==
    /\ Len(sent) = 2 /\ sent[2].round = 2
    /\ Len(ToolMsgsOf(sent[2].messages)) = 3

IsTraceLine(part) == Len(part) > 0 /\ Head(part) = "[Called tool '"
TracePositions == {p \in 1..Len(final_text_parts) : IsTraceLine(final_text_parts[p])}
\* position in the buffer of the e-th trace line
TracePos(e) ==
    CHOOSE p \in TracePositions :
       Cardinality({p2 \in TracePositions : p2 <= p}) = e

\* C7: the calls of a batch are dispatched one after another in emission order:
\* a call is issued only when every earlier call of the batch is resolved, at most
\* one call is in flight, and the tool-role messages of the history and the trace
\* lines of the buffer follow the emission order of the calls they belong to.
C7_SequentialInOrder ==
    /\ \A e \in 1..(Len(invoked) - 1) : invoked[e].idx < invoked[e + 1].idx
    /\ pc = "calling" =>
          /\ Len(resolved) = i - 1
          /\ \A k \in 1..(i - 1) : resolved[k].idx = k
          /\ invoked[Len(invoked)].idx = i
          /\ Len(ToolMsgsOf(messages)) = Len(invoked) - 1
    /\ pc # "calling" => Len(ToolMsgsOf(messages)) = Len(invoked)
    /\ \A e \in 1..Len(ToolMsgsOf(messages)) :
          ToolMsgsOf(messages)[e].tool_call_id = Batch[invoked[e].idx].id
    /\ Cardinality(TracePositions) = Len(ToolMsgsOf(messages))
    /\ \A e \in 1..Len(ToolMsgsOf(messages)) :
          /\ final_text_parts[TracePos(e)][2] = Batch[invoked[e].idx].name
          /\ final_text_parts[TracePos(e) + 1] = ToolMsgsOf(messages)[e].content

\* C7 witness: three calls with different tools have been dispatched and resolved.
C7_Witness ==
    /\ pc = "round2" /\ BatchLen = 3 /\ Len(invoked) = 3
    /\ Batch[1].name # Batch[2].name
    /\ Batch[2].name # Batch[3].name

\* C8: when the batch is handled, every ToolCallRequest has in the buffer a trace
\* line naming its tool, immediately followed by its result text, and that text is
\* the content of the call's tool-role message; also when the call failed.
C8_TraceAndResultPerCall ==
    BatchHandled =>
       \A k \in 1..BatchLen :
          \E p \in 1..(Len(final_text_parts) - 1) :
             /\ IsTraceLine(final_text_parts[p])
             /\ final_text_parts[p][2] = Batch[k].name
             /\ HasToolMsg(Batch[k].id, final_text_parts[p + 1])

RECURSIVE C9_NewlineJoined(_)
C9_NewlineJoined(parts) ==
    IF Len(parts) = 0 THEN <<>>
    ELSE IF Len(parts) = 1 THEN parts[1]
    ELSE parts[1] \o <<"\n">> \o C9_NewlineJoined(Tail(parts))

C9_Args(blob) ==
    IF blob = ParisBlob THEN <<"{", "'", "city", "': '", "Paris", "'", "}">>
    ELSE <<"{", "}">>
C9_Trace(tc) ==
    <<"[Called tool '", tc.name, "' with args ">> \o C9_Args(tc.arguments) \o <<"]">>
C9_ResultOf(tc) ==
    (CHOOSE r \in {resolved[x] : x \in 1..Len(resolved)} : Batch[r.idx] = tc).text
RECURSIVE C9_CallParts(_)
C9_CallParts(k) ==
    IF k > BatchLen THEN <<>>
    ELSE <<C9_Trace(Batch[k]), C9_ResultOf(Batch[k])>> \o C9_CallParts(k + 1)
C9_Optional(content) ==
    IF content = None \/ content = <<>> THEN <<>> ELSE <<content>>

C10_TurnFailureCaught ==
    [][(pc = "turn_end" /\ result.kind = "raise") =>
          /\ pc' = "read"
          /\ printed' = [kind |-> "Error", text |-> <<"\nError: ">> \o result.text]
      ]_vars

\* C10 witness: after a turn that ended in an Error line, a later turn has
\* returned and its Response was printed.
C10_Witness ==
    /\ hadError
    /\ pc = "read"
    /\ printed.kind = "Response"

LoopPcs == {"read", "list_tools", "round1", "dispatch", "calling", "round2",
            "turn_end"}
TurnPcs == LoopPcs \ {"read"}

\* the quit token, whatever the case of its letters
C11_QuitToken(q) ==
    /\ Len(q) = 4
    /\ q[1] \in {"q", "Q"} /\ q[2] \in {"u", "U"}
    /\ q[3] \in {"i", "I"} /\ q[4] \in {"t", "T"}
C11_Trimmed(q) == Len(q) = 0 \/ (q[1] # " " /\ q[Len(q)] # " ")

\* C11: a line that is `quit` after trimming, whatever its case, never starts a
\* turn: the loop is left with no request to the Tool Host or the Model Backend
\* for that line, and once the loop is left no line is read again. An interrupt
\* leaves the loop too: raised in input() or at an await of the turn it takes the
\* loop straight out; when the runtime defers it as a cancellation, no request
\* is completed for any line read after it.
C11_QuitAndInterruptEndSession ==
    /\ [][(pc = "read" /\ pc' = "list_tools") =>
             (~C11_QuitToken(query') /\ C11_Trimmed(query'))]_vars
    /\ [](pc \in {"exited", "done"} /\ event = "quit" =>
             /\ C11_QuitToken(query)
             /\ sent = <<>> /\ invoked = <<>> /\ fetched = <<>>)
    /\ [][(pc \in {"exited", "done"}) => (pc' \in {"exited", "done"})]_vars
    /\ [][(pc \in LoopPcs /\ event' # event
           /\ event' \in {"KeyboardInterrupt", "CancelledError"}) =>
             pc' = "exited"]_vars
    /\ [](cancelPending =>
             /\ pc \in {"read", "list_tools", "exited", "done"}
             /\ sent = <<>> /\ invoked = <<>> /\ fetched = <<>>)

\* C11 witness: the line ` Quit ` has ended the session.
C11_Witness ==
    /\ pc = "exited" /\ event = "quit"
    /\ query = <<"Q", "u", "i", "t">>

\* C11 witness: a turn in flight was interrupted
C11_WitnessInFlight ==
    pc = "exited" /\ event = "CancelledError" /\ ~cancelPending

\* C12: once the client is constructed, main is never left without cleanup having
\* been called and the subprocess and session released: after quit, after an
\* interrupt, after a failed connect_to_server, after an error escaping chat_loop.
C12_CleanupOnEveryPath ==
    /\ pc = "done" => (cleaned /\ ~spawned /\ ~sessionOpen)
    /\ pc = "usage_exit" => (~spawned /\ ~sessionOpen)
    /\ (spawned \/ sessionOpen) => (pc # "done" /\ ~cleaned)

\* C12 witness: a cancellation escaped chat_loop and cleanup has run.
C12_Witness ==
    /\ pc = "done" /\ cleaned
    /\ event = "CancelledError"
    /\ query # <<>>

\* C12 witnesses: cleanup after a failed handshake, and after quit
C12_WitnessSetup == pc = "done" /\ cleaned /\ event = "HandshakeError"
C12_WitnessQuit == pc = "done" /\ cleaned /\ event = "quit"

C13_HasExtension(path) ==
    /\ Len(path) >= 3
    /\ path[Len(path) - 2] = "."
    /\ \/ (path[Len(path) - 1] = "p" /\ path[Len(path)] = "y")
       \/ (path[Len(path) - 1] = "j" /\ path[Len(path)] = "s")
C13_SetupErrors == {"ValueError", "LaunchError", "HandshakeError"}

\* C13: a setup failure is fatal: a script path ending in neither .py nor .js
\* makes connect_to_server raise before any subprocess is spawned; after any
\* setup failure the loop is never entered and no query is read or processed;
\* the loop is entered only from a completed setup.
C13_SetupFailureFatal ==
    /\ [][pc = "connect" =>
             IF C13_HasExtension(server_script_path)
             THEN pc' = "spawn"
             ELSE pc' = "setup_failed" /\ event' = "ValueError" /\ ~spawned']_vars
    /\ [](event = "ValueError" => ~spawned)
    /\ [](event \in C13_SetupErrors =>
             /\ pc \in {"setup_failed", "done"}
             /\ query = <<>> /\ sent = <<>> /\ invoked = <<>>
             /\ printed = Nothing)
    /\ [][(pc \notin LoopPcs /\ pc' \in LoopPcs) =>
             (pc = "conn_list" /\ pc' = "read" /\ spawned /\ sessionOpen)]_vars

\* C13 witness: main ended after an unsupported extension, nothing was spawned.
C13_Witness ==
    /\ pc = "done" /\ event = "ValueError" /\ ~spawned /\ query = <<>>

C14_IsPrefix(a, b) == Len(a) <= Len(b) /\ SubSeq(b, 1, Len(a)) = a

\* C14: within a turn the history only grows at its end, by one message at a
\* time, and the history sent in round 2 has the history sent in round 1 as a
\* prefix.
C14_AppendOnly ==
    /\ [][(pc \in TurnPcs /\ pc' \in TurnPcs) =>
             /\ C14_IsPrefix(messages, messages')
             /\ Len(messages') <= Len(messages) + 1]_vars
    /\ [](Len(sent) = 2 =>
             /\ C14_IsPrefix(sent[1].messages, sent[2].messages)
             /\ C14_IsPrefix(sent[2].messages, messages))

\* C14 witness: round 2 was requested with user, assistant and three tool messages.
C14_Witness ==
    /\ Len(sent) = 2
    /\ Len(sent[2].messages) = 5
    /\ Len(sent[1].messages) = 1

\* C15: round 2 is requested exactly once per turn with tool calls, after every
\* call of the batch is resolved, without tool specs and without a tool-choice
\* policy; a turn makes at most two requests, and nothing is dispatched after the
\* round-2 reply even when it carries tool calls.
C15_Round2Once ==
    /\ [](/\ Len(sent) <= 2
          /\ \A r \in 1..Len(sent) : sent[r].round = r
          /\ Len(sent) = 2 =>
                /\ pc = "turn_end"
                /\ BatchLen > 0
                /\ Len(resolved) = BatchLen
                /\ \A k \in 1..BatchLen : resolved[k].idx = k
                /\ ~sent[2].tools.given
                /\ sent[2].tool_choice = "omitted"
          /\ (pc = "turn_end" /\ BatchLen > 0) => Len(sent) = 2
          /\ pc \in {"dispatch", "calling"} => Len(sent) = 1)
    /\ [][Len(sent) = 2 => (pc' \in {"read", "exited"} /\ invoked' = <<>>)]_vars

\* C15 witness: the round-2 reply asked for a tool again and the turn returned.
C15_Witness ==
    /\ pc = "turn_end" /\ result.kind = "return"
    /\ Len(final_message.tool_calls) = 1
    /\ Len(sent) = 2

C16_ItemText(item) == IF item.hasText THEN item.text ELSE item.repr
C16_Expected(resp) ==
    CASE resp.kind = "str" -> resp.text
      [] resp.kind = "list" ->
            IF \E k \in 1..Len(resp.items) : C16_ItemText(resp.items[k]) = None
            THEN <<"[Tool execution error: ", "sequence item ", "0",
                   ": expected str instance, NoneType found", "]">>
            ELSE C9_NewlineJoined([k \in 1..Len(resp.items) |->
                                      C16_ItemText(resp.items[k])])
      [] resp.kind \in {"other", "nocontent"} -> resp.text
      [] resp.kind = "raise" -> <<"[Tool execution error: ">> \o resp.msg \o <<"]">>
      [] OTHER -> <<>>

\* C16: the response of the Tool Host is normalized to one text: a text content
\* verbatim, a list of items as the newline-join of each item's text attribute or
\* else its textual representation, any other shape or a missing content as the
\* textual representation, and a failure of the normalization as the
\* tool-execution error text.
C16_Normalization ==
    \A r \in 1..Len(resolved) :
       resolved[r].resp.kind # "parse_error" =>
          /\ resolved[r].text = C16_Expected(resolved[r].resp)
          /\ HasToolMsg(Batch[resolved[r].idx].id, C16_Expected(resolved[r].resp))

\* C16 witness: a list of a text item and an item without text was normalized.
C16_Witness ==
    \E r \in 1..Len(resolved) :
       /\ resolved[r].resp.kind = "list"
       /\ resolved[r].text = <<"Sunny", "\n", "ImageContent(...)">>

C17_Spec(tool) ==
    [type |-> "function",
     function |-> [name |-> tool.name, description |-> tool.description,
                   parameters |-> tool.inputSchema]]

\* C17: a turn fetches the catalog once, before round 1, from what the Tool Host
\* serves at that moment; the tool specs of the round-1 request are the specs of
\* the fetched tools in catalog order, with the automatic tool choice.
C17_CatalogPerTurn ==
    /\ [](/\ Len(fetched) <= 1
          /\ pc \in {"round1", "dispatch", "calling", "round2"} => Len(fetched) = 1
          /\ Len(sent) >= 1 =>
                /\ Len(fetched) = 1
                /\ sent[1].tool_choice = "auto"
                /\ sent[1].tools.given
                /\ Len(sent[1].tools.specs) = Len(fetched[1])
                /\ \A k \in 1..Len(fetched[1]) :
                      sent[1].tools.specs[k] = C17_Spec(fetched[1][k]))
    /\ [][(pc = "list_tools" /\ pc' = "round1") => fetched' = <<catalog>>]_vars

\* C17 witness: after the catalog has changed and an earlier turn has ended, the
\* round-1 request of a turn carries the two tools of the new catalog, in order.
C17_Witness ==
    /\ hadError
    /\ catalog # InitialCatalog
    /\ Len(sent) >= 1
    /\ Len(sent[1].tools.specs) = 2
    /\ sent[1].tools.specs[1].function.name = "get_time"
    /\ sent[1].tools.specs[2].function.name = "get_weather"

\* C18: whatever the earlier turns did, the round-1 history is the single user
\* message of this turn's query; the round-2 history is that user message, one
\* assistant message with the tool calls, then tool-role messages only; and the
\* round-2 reply is not appended to the history.
C18_NoCarryOver ==
    /\ \A r \in 1..Len(sent) :
          LET h == sent[r].messages
          IN  /\ Len(h) >= 1
              /\ h[1] = [role |-> "user", content |-> query]
              /\ sent[r].round = 1 => Len(h) = 1
              /\ sent[r].round = 2 =>
                    /\ Len(h) >= 2
                    /\ h[2].role = "assistant"
                    /\ Len(h[2].tool_calls) = BatchLen
                    /\ BatchLen > 0
                    /\ \A k \in 3..Len(h) : h[k].role = "tool"
    /\ Len(sent) = 2 => messages = sent[2].messages

\* C18 witness: after a failed turn, a turn with tool calls has been answered in
\* round 2.
C18_Witness ==
    /\ hadError
    /\ pc = "turn_end" /\ result.kind = "return"
    /\ Len(sent) = 2
    /\ Len(sent[2].messages) >= 3

\* C19: chat_loop is left only by the quit token or by an interrupt; an exception
\* raised by input() itself is reported as an Error line and the loop reads
\* again, so a read that always fails keeps the loop running.
C19_LoopEndsOnlyByQuitOrInterrupt ==
    /\ [][(pc \in LoopPcs /\ pc' \notin LoopPcs) =>
             /\ pc' = "exited"
             /\ event' \in {"quit", "KeyboardInterrupt", "CancelledError"}]_vars
    /\ [][(pc = "read" /\ event' = "EOFError") =>
             /\ pc' = "read"
             /\ printed' = [kind |-> "Error",
                            text |-> <<"\nError: ", "EOF when reading a line">>]]_vars

\* C19 witness: input() has failed and the loop is reading again.
C19_Witness ==
    /\ pc = "read" /\ event = "EOFError"
    /\ printed.kind = "Error"

====
